---- MODULE Spec2Model ----
(***************************************************************************)
(* A model of acecal (src/src/main.rs): the bdeck parsing-and-aggregation  *)
(* pipeline process_bdeck_files and the basin classifier get_basin.        *)
(*                                                                         *)
(* Text is modelled as a sequence of one-character strings, so that every  *)
(* fixed-offset slice and every str::parse of the source is computed on    *)
(* the characters of the line.  Latitude and longitude are f32 degrees in  *)
(* the source, always obtained as (integer tenths) / 10; the model keeps   *)
(* the integer number of tenths and compares it with ten times the         *)
(* source's thresholds, which orders the values exactly as the f32         *)
(* comparisons do (tenths are at least 0.1 away from any threshold they    *)
(* differ from, and -0.0 < 0.0 is false like 0 < 0).                       *)
(***************************************************************************)
EXTENDS Integers, Sequences, FiniteSets, TLC

VARIABLES
    pc,              \* position in process_bdeck_files / outcome of the run
    file_head,       \* the first eight characters of the current file
    cur_line,        \* the line last yielded by file.lines(), <<>> before the first
    kept,            \* the lines of the current file that passed the dedup test
    atcf_basin,      \* main.rs:147
    last_time,       \* main.rs:146, the dedup cursor
    ss_tmp,          \* main.rs:150, the StormStats of the file in progress
    storm_stats,     \* main.rs:143
    yearly_ace_map,  \* main.rs:142
    loc,             \* locals of the last loop iteration (main.rs:153-212)
    ret,             \* the value returned at main.rs:221, or NoResult
    nlines,          \* number of lines read in the whole run
    probe            \* inputs and outputs of the pure-function specifications

vars == <<pc, file_head, cur_line, kept, atcf_basin, last_time, ss_tmp,
          storm_stats, yearly_ace_map, loc, ret, nlines, probe>>

---------------------------------------------------------------------------
(* Bounds of the model.                                                    *)

MaxFiles == 2
MaxTotalLines == 3
MaxPermFiles == 3

---------------------------------------------------------------------------
(* Characters, slices and the parsers of the standard library.            *)

DigitChars == <<"0", "1", "2", "3", "4", "5", "6", "7", "8", "9">>

IsDigit(c) == \E i \in 1..10 : DigitChars[i] = c

DigitVal(c) == (CHOOSE i \in 1..10 : DigitChars[i] = c) - 1

\* &s[a..b] : bytes a (inclusive) to b (exclusive), 0-based.
Slice(s, a, b) == SubSeq(s, a + 1, b)

\* &s[a..b] panics when b exceeds the length (or a > b).
SliceOk(s, a, b) == a <= b /\ b <= Len(s)

RECURSIVE DigitsVal(_)
DigitsVal(s) ==
    IF s = <<>> THEN 0
    ELSE 10 * DigitsVal(SubSeq(s, 1, Len(s) - 1)) + DigitVal(s[Len(s)])

\* The part of a numeric literal after an optional sign.
Unsigned(s) == IF s # <<>> /\ s[1] \in {"+", "-"} THEN Tail(s) ELSE s

\* str::parse::<i32>: an optional sign followed by one or more decimal
\* digits and nothing else (no surrounding whitespace).  Nine digits always
\* fit an i32; the fields parsed here are at most four characters long.
parse_i32(s) ==
    LET body == Unsigned(s)
        good == /\ body # <<>>
                /\ \A i \in 1..Len(body) : IsDigit(body[i])
                /\ Len(body) <= 9
    IN  IF good
        THEN [ok |-> TRUE,
              val |-> IF s[1] = "-" THEN 0 - DigitsVal(body) ELSE DigitsVal(body)]
        ELSE [ok |-> FALSE, val |-> 0]

\* str::parse::<f32> on the characters the model's inputs are made of
\* (digits, sign, space, comma, capital letters): an optional sign followed
\* by digits.  The value is the parsed number; the caller's division by 10
\* is kept symbolic (the result is a number of tenths of a degree).
parse_f32(s) ==
    LET body == Unsigned(s)
        good == /\ body # <<>>
                /\ \A i \in 1..Len(body) : IsDigit(body[i])
    IN  IF good
        THEN [ok |-> TRUE,
              val |-> IF s[1] = "-" THEN 0 - DigitsVal(body) ELSE DigitsVal(body)]
        ELSE [ok |-> FALSE, val |-> 0]

\* .strip_prefix(" ").unwrap_or(temp_wind)
strip_prefix_space(s) == IF s # <<>> /\ s[1] = " " THEN Tail(s) ELSE s

\* .chars().filter(|c| !c.is_whitespace()).collect()
filter_whitespace(s) == SelectSeq(s, LAMBDA c : c # " ")

---------------------------------------------------------------------------
(* PerBasinACE, StormStats, Basin.                                         *)

Basins == {"WPAC", "NIO", "SHEM", "EPAC", "ATL"}

PerBasinACE_default == [b \in Basins |-> 0]

\* PerBasinACE::sum
PerBasinACE_sum(p) == p["WPAC"] + p["NIO"] + p["SHEM"] + p["EPAC"] + p["ATL"]

\* The mutation of update_ace that assigns instead of adding.
update_ace_assign(p, basin, ace) == [p EXCEPT ![basin] = ace]

\* PerBasinACE::update_ace
update_ace(p, basin, ace) == [p EXCEPT ![basin] = @ + ace]

StormStats_default ==
    [atcf_code |-> <<>>, max_wind |-> 0, ace |-> PerBasinACE_default]

NonTropical == {<<"S","D">>, <<"S","S">>, <<"L","O">>, <<"M","D">>,
                <<"E","X">>, <<"D","B">>, <<"E","T">>}

\* is_tropical
is_tropical(storm_type) == storm_type \notin NonTropical

\* is_synop_time, once time_str has parsed to t
is_synop_time(t) == (t % 6) = 0

\* The mutation of get_basin that sends longitude 180 to the East Pacific.
get_basin_strict180(latitude, longitude) ==
    IF latitude < 0 THEN "SHEM"
    ELSE IF longitude < 1000
         THEN IF latitude < 400 THEN "NIO"
              ELSE IF longitude < 700 THEN "ATL" ELSE "WPAC"
         ELSE IF longitude < 1800 THEN "WPAC"
         ELSE IF longitude < 2400 THEN "EPAC"
         ELSE IF longitude > 3000 THEN "ATL"
         ELSE "EPAC"

\* get_basin, on tenths of a degree
get_basin(latitude, longitude) ==
    IF latitude < 0 THEN "SHEM"
    ELSE IF longitude < 1000
         THEN IF latitude < 400 THEN "NIO"
              ELSE IF longitude < 700 THEN "ATL" ELSE "WPAC"
         ELSE IF longitude <= 1800 THEN "WPAC"
         ELSE IF longitude < 2400 THEN "EPAC"
         ELSE IF longitude > 3000 THEN "ATL"
         ELSE "EPAC"

---------------------------------------------------------------------------
(* The body of the loop over file.lines() (main.rs:152-218), split at the  *)
(* statements the properties are about.                                    *)

LocDefault ==
    [outcome |-> "none", line_time |-> <<>>, year |-> 0, temp_wind |-> <<>>,
     wind |-> 0, latitude |-> 0, longitude |-> 0, storm_type |-> <<>>,
     hour |-> 0, basin |-> "none", ace |-> 0]

\* The mutation that declares the dedup cursor outside the loop over files.
initial_last_time_carried(prev_time) == prev_time

\* main.rs:146: the cursor of a new file, whatever the previous file left
initial_last_time(prev_time) == <<>>

\* The mutation of the dedup test that never skips a line.
is_duplicate_never(prev_time, line_time) == FALSE

\* main.rs:154
is_duplicate(prev_time, line_time) == prev_time = line_time

\* The mutation of the season-year rule that forgets the basin code.
adjust_year_any_basin(year, month, basin_code) ==
    IF month > 6 THEN year + 1 ELSE year

\* main.rs:161-163
adjust_year(year, month, basin_code) ==
    IF (month > 6) /\ (basin_code = <<"S", "H">>) THEN year + 1 ELSE year

\* The mutation of the lazy insertion that overwrites an existing entry.
ensure_year_overwrite(map, year) ==
    [y \in DOMAIN map \cup {year} |->
        IF y = year THEN PerBasinACE_default ELSE map[y]]

\* main.rs:164-166
ensure_year(map, year) ==
    IF year \in DOMAIN map THEN map
    ELSE [y \in DOMAIN map \cup {year} |->
            IF y = year THEN PerBasinACE_default ELSE map[y]]

\* main.rs:167-174
wind_field(line) ==
    LET line_len == Len(line) - 1
    IN  IF line_len < 51
        THEN Slice(line, line_len - 3, Len(line))
        ELSE Slice(line, 48, 51)

\* main.rs:175-182
normalize_wind(temp_wind) ==
    LET r == parse_i32(strip_prefix_space(temp_wind))
        wind == IF r.ok THEN r.val ELSE 0
    IN  IF wind = 999 THEN 0 ELSE wind

\* The mutation of the running maximum that keeps the latest wind.
update_max_wind_latest(max_wind, wind) == wind

\* main.rs:183-185
update_max_wind(max_wind, wind) == IF wind > max_wind THEN wind ELSE max_wind

\* The mutation of the coordinate parse that defaults to 0 instead of failing.
parse_tenths_lenient(field, n) ==
    LET r == parse_f32(filter_whitespace(Slice(field, 0, n)))
    IN  IF r.ok THEN r ELSE [ok |-> TRUE, val |-> 0]

\* main.rs:187-191 and 196-200: the first n characters of the field, without
\* whitespace, parsed as f32
parse_tenths(field, n) == parse_f32(filter_whitespace(Slice(field, 0, n)))

\* main.rs:204-208
storm_type_of(line) ==
    LET line_len == Len(line) - 1
    IN  IF line_len > 59 THEN Slice(line, 59, 61) ELSE <<>>

\* The mutation of the tropical-storm threshold that excludes 35 kt.
earns_ace_above35(wind) == wind > 35

\* main.rs:210
earns_ace(wind) == wind >= 35

\* main.rs:153-217: one iteration on `line`, from the state st
\* [atcf_basin, last_time, ss_tmp, yearly_ace_map].  outcome is "skipped"
\* (the continue of line 155), "kept" (the iteration ran to its end) or
\* "panic" (a slice out of bounds or an unwrap of a failed parse).
process_line(st, line) ==
    LET Panic == [outcome |-> "panic", last_time |-> st.last_time,
                  ss_tmp |-> st.ss_tmp,
                  yearly_ace_map |-> st.yearly_ace_map,
                  loc |-> [LocDefault EXCEPT !.outcome = "panic"]]
    IN
    IF ~SliceOk(line, 8, 18) THEN Panic
    ELSE
    LET line_time == Slice(line, 8, 18) IN
    IF is_duplicate(st.last_time, line_time)
    THEN [outcome |-> "skipped", last_time |-> st.last_time,
          ss_tmp |-> st.ss_tmp, yearly_ace_map |-> st.yearly_ace_map,
          loc |-> [LocDefault EXCEPT !.outcome = "skipped",
                                     !.line_time = line_time]]
    ELSE
    LET yr == parse_i32(Slice(line_time, 0, 4))
        mo == parse_i32(Slice(line_time, 4, 6))
    IN
    IF ~yr.ok \/ ~mo.ok THEN Panic
    ELSE
    LET year == adjust_year(yr.val, mo.val, st.atcf_basin)
        map1 == ensure_year(st.yearly_ace_map, year)
        temp_wind == wind_field(line)
        wind == normalize_wind(temp_wind)
        max1 == update_max_wind(st.ss_tmp.max_wind, wind)
    IN
    IF ~SliceOk(line, 35, 39) THEN Panic
    ELSE
    LET lat_str == Slice(line, 35, 39)
        lat == parse_tenths(lat_str, 3)
    IN
    IF ~lat.ok THEN Panic
    ELSE
    LET latitude == IF Slice(lat_str, 3, 4) = <<"S">>
                    THEN 0 - lat.val ELSE lat.val
    IN
    IF ~SliceOk(line, 41, 46) THEN Panic
    ELSE
    LET lon_str == Slice(line, 41, 46)
        lon == parse_tenths(lon_str, 4)
    IN
    IF ~lon.ok THEN Panic
    ELSE
    LET longitude == IF Slice(lon_str, 4, 5) = <<"W">>
                     THEN 3600 - lon.val ELSE lon.val
        storm_type == storm_type_of(line)
        hh == parse_i32(Slice(line_time, 8, 10))
    IN
    \* `&` does not short-circuit: is_synop_time runs, and unwraps, always.
    IF ~hh.ok THEN Panic
    ELSE
    LET gets == is_tropical(storm_type) /\ is_synop_time(hh.val)
                    /\ earns_ace(wind)
        basin == IF gets THEN get_basin(latitude, longitude) ELSE "none"
        ace == IF gets THEN wind * wind ELSE 0
        ss1 == [st.ss_tmp EXCEPT
                   !.max_wind = max1,
                   !.ace = IF gets THEN update_ace(@, basin, ace) ELSE @]
        map2 == IF gets
                THEN [map1 EXCEPT ![year] = update_ace(@, basin, ace)]
                ELSE map1
    IN  [outcome |-> "kept", last_time |-> line_time, ss_tmp |-> ss1,
         yearly_ace_map |-> map2,
         loc |-> [outcome |-> "kept", line_time |-> line_time,
                  year |-> year, temp_wind |-> temp_wind, wind |-> wind,
                  latitude |-> latitude, longitude |-> longitude,
                  storm_type |-> storm_type, hour |-> hh.val,
                  basin |-> basin, ace |-> ace]]

---------------------------------------------------------------------------
(* Input files: bdeck lines in the layout the offsets of the source read.  *)

RECURSIVE Z(_, _)
\* n in decimal, zero-padded to w characters.
Z(n, w) == IF w = 0 THEN <<>>
           ELSE Z(n \div 10, w - 1) \o <<DigitChars[(n % 10) + 1]>>

\* YYYYMMDDHH
TS(y, m, d, h) == Z(y, 4) \o Z(m, 2) \o Z(d, 2) \o Z(h, 2)

\* The first eight characters of every line of a storm's file.
LinePrefix(basin_code, number) ==
    basin_code \o <<",", " ">> \o number \o <<",", " ">>

\* A line of len characters: the fields of f in their columns (basin [0,2),
\* number [4,6), timestamp [8,18), latitude [35,39), longitude [41,46),
\* wind [48,51), pressure [53,57), storm type [59,61)), cut after len.
MkLine(prefix, f) ==
    SubSeq(prefix \o f.ts
             \o <<",", " ", " ", " ", ",", " ", "B", "E", "S", "T", ",", " ",
                  " ", " ", "0", ",", " ">>
             \o f.lat \o <<",", " ">> \o f.lon \o <<",", " ">> \o f.wind
             \o <<",", " ", "1", "0", "0", "0", ",", " ">> \o f.type
             \o <<",">>,
           1, f.len)

Fix(ts, lat, lon, wind, type, len) ==
    [ts |-> ts, lat |-> lat, lon |-> lon, wind |-> wind, type |-> type,
     len |-> len]

N150 == <<"1", "5", "0", "N">>
S150 == <<"1", "5", "0", "S">>
E1400 == <<"1", "4", "0", "0", "E">>
W1400 == <<"1", "4", "0", "0", "W">>
TStype == <<"T", "S">>

\* The fix of the end-to-end example: 65 kt, TS, 00Z, 15.0N 140.0E.
FixA == Fix(TS(2023, 9, 12, 0), N150, E1400, <<" ", "6", "5">>, TStype, 62)
\* The timestamp of FixA with other content: 100 kt, 15.0S.
FixA2 == Fix(TS(2023, 9, 12, 0), S150, E1400, <<"1", "0", "0">>, TStype, 62)
\* Not a synoptic hour.
FixB == Fix(TS(2023, 9, 12, 3), N150, E1400, <<" ", "6", "5">>, TStype, 62)
\* Below and at the 35 kt threshold; the latter in December, 140.0W.
FixC == Fix(TS(2023, 9, 12, 6), N150, E1400, <<" ", "3", "4">>, TStype, 62)
FixD == Fix(TS(2023, 12, 31, 12), N150, W1400, <<" ", "3", "5">>, TStype, 62)
\* An excluded storm type.
FixE == Fix(TS(2023, 9, 12, 18), N150, E1400, <<" ", "8", "0">>,
            <<"E", "X">>, 62)
\* June, southern hemisphere.
FixF == Fix(TS(2023, 6, 30, 6), S150, E1400, <<" ", "5", "0">>, TStype, 62)
\* The 999 sentinel.
FixG == Fix(TS(2023, 9, 13, 0), N150, E1400, <<"9", "9", "9">>, TStype, 62)
\* A wind field that is no number.
FixH == Fix(TS(2023, 9, 13, 6), N150, E1400, <<" ", "X", "X">>, TStype, 62)
\* Long-style without a storm type (52 characters), July.
FixI == Fix(TS(2023, 7, 1, 12), N150, E1400, <<" ", "4", "0">>, TStype, 52)
\* Short-style (51 characters): a three-digit and a two-digit wind.
FixJ == Fix(TS(2023, 9, 14, 0), N150, E1400, <<"1", "0", "0">>, TStype, 51)
FixK == Fix(TS(2023, 9, 14, 6), N150, E1400, <<" ", "6", "5">>, TStype, 51)

\* Well-formed fixes: every field the source unwraps parses.
GoodFixes == {FixA, FixA2, FixB, FixC, FixD, FixE, FixF, FixG, FixH, FixI,
              FixJ, FixK}

BadTS(y, m, h) == y \o m \o Z(12, 2) \o h

\* Malformed fixes: one field fails to parse or lies beyond the line's end.
BadFixes ==
    { Fix(BadTS(<<"2", "0", "X", "3">>, Z(9, 2), Z(0, 2)), N150, E1400,
          <<" ", "6", "5">>, TStype, 62),
      Fix(BadTS(Z(2023, 4), <<" ", "9">>, Z(0, 2)), N150, E1400,
          <<" ", "6", "5">>, TStype, 62),
      \* unparsable hour on a non-tropical line
      Fix(BadTS(Z(2023, 4), Z(9, 2), <<"0", "X">>), N150, E1400,
          <<" ", "6", "5">>, <<"E", "X">>, 62),
      \* unparsable latitude, timestamp of the first well-formed fix
      Fix(TS(2023, 9, 12, 0), <<" ", " ", " ", "N">>, E1400,
          <<" ", "6", "5">>, TStype, 62),
      Fix(TS(2023, 9, 14, 12), N150, <<"1", "4", "X", "0", "E">>,
          <<" ", "6", "5">>, TStype, 62),
      \* too short for [8,18), [35,39), [41,46)
      Fix(TS(2023, 9, 14, 12), N150, E1400, <<" ", "6", "5">>, TStype, 12),
      Fix(TS(2023, 9, 14, 12), N150, E1400, <<" ", "6", "5">>, TStype, 38),
      Fix(TS(2023, 9, 14, 12), N150, E1400, <<" ", "6", "5">>, TStype, 45) }

Fixes == GoodFixes \cup BadFixes

\* The first eight characters of a file.
HeadWP == LinePrefix(<<"W", "P">>, <<"0", "1">>)
HeadSH == LinePrefix(<<"S", "H">>, <<"0", "2">>)
Headers == {HeadWP, HeadSH}

---------------------------------------------------------------------------
(* process_bdeck_files, one step per statement group.                      *)

NoResult == [returned |-> FALSE]

Init ==
    /\ pc = "idle"
    /\ file_head = <<>>
    /\ cur_line = <<>>
    /\ kept = {}
    /\ atcf_basin = <<>>
    /\ last_time = <<>>
    /\ ss_tmp = StormStats_default
    /\ storm_stats = <<>>
    /\ yearly_ace_map = <<>>
    /\ loc = LocDefault
    /\ ret = NoResult
    /\ nlines = 0
    /\ probe = <<>>

\* main.rs:145-151: read the next file and its header.
StartFile ==
    /\ pc = "idle"
    /\ Len(storm_stats) < MaxFiles
    /\ nlines < MaxTotalLines
    /\ \E hdr \in Headers :
         /\ file_head' = hdr
         /\ atcf_basin' = Slice(hdr, 0, 2)
         /\ ss_tmp' = [StormStats_default EXCEPT
                          !.atcf_code = Slice(hdr, 0, 2) \o Slice(hdr, 4, 6)]
    /\ cur_line' = <<>>
    /\ kept' = {}
    /\ last_time' = initial_last_time(last_time)
    /\ loc' = LocDefault
    /\ pc' = "header"
    /\ UNCHANGED <<storm_stats, yearly_ace_map, ret, nlines, probe>>

\* main.rs:152-218: the next line of the file goes through the loop body.
\* Every line of a storm's file starts with the file's first eight
\* characters.  A panic unwinds process_bdeck_files: its locals (the vector
\* of StormStats and the yearly map among them) are dropped and nothing is
\* returned.
ProcessLineResult(next_line, r) ==
    /\ cur_line' = next_line
    /\ loc' = r.loc
    /\ IF r.outcome = "panic"
       THEN /\ pc' = "aborted"
            /\ kept' = {}
            /\ last_time' = <<>>
            /\ ss_tmp' = StormStats_default
            /\ storm_stats' = <<>>
            /\ yearly_ace_map' = <<>>
       ELSE /\ pc' = "lines"
            /\ kept' = IF r.outcome = "kept"
                       THEN kept \cup {next_line} ELSE kept
            /\ last_time' = r.last_time
            /\ ss_tmp' = r.ss_tmp
            /\ storm_stats' = storm_stats
            /\ yearly_ace_map' = r.yearly_ace_map

ProcessLineOn(next_line) ==
    ProcessLineResult(next_line,
        process_line([atcf_basin |-> atcf_basin, last_time |-> last_time,
                      ss_tmp |-> ss_tmp, yearly_ace_map |-> yearly_ace_map],
                     next_line))

ProcessLine ==
    /\ pc \in {"header", "lines"}
    /\ nlines < MaxTotalLines
    /\ \E f \in Fixes : ProcessLineOn(MkLine(file_head, f))
    /\ nlines' = nlines + 1
    /\ UNCHANGED <<file_head, atcf_basin, ret, probe>>

\* main.rs:219: the file's lines are exhausted.
EndFile ==
    /\ pc = "lines"
    /\ storm_stats' = Append(storm_stats, ss_tmp)
    /\ pc' = "idle"
    /\ UNCHANGED <<file_head, cur_line, kept, atcf_basin, last_time, ss_tmp,
                   yearly_ace_map, loc, ret, nlines, probe>>

\* main.rs:221: the file list is exhausted (main never passes an empty list).
Return ==
    /\ pc = "idle"
    /\ Len(storm_stats) >= 1
    /\ ret' = [returned |-> TRUE, storm_stats |-> storm_stats,
               yearly_ace_map |-> yearly_ace_map]
    /\ pc' = "done"
    /\ UNCHANGED <<file_head, cur_line, kept, atcf_basin, last_time, ss_tmp,
                   storm_stats, yearly_ace_map, loc, nlines, probe>>

Next == StartFile \/ ProcessLine \/ EndFile \/ Return

Spec == Init /\ [][Next]_vars

---------------------------------------------------------------------------
(* process_bdeck_files as a function of the file list, built from the same *)
(* loop body.  A file is its first eight characters and its fixes.         *)

FileLines(f) == [i \in 1..Len(f.fixes) |-> MkLine(f.head, f.fixes[i])]

\* The state of the loop over the lines after an iteration with result r.
after_line(st, r) ==
    [atcf_basin |-> st.atcf_basin, last_time |-> r.last_time,
     ss_tmp |-> r.ss_tmp, yearly_ace_map |-> r.yearly_ace_map,
     panicked |-> r.outcome = "panic"]

RECURSIVE run_lines(_, _)
\* main.rs:152-218: the loop over the lines of one file.
run_lines(st, lines) ==
    IF lines = <<>> \/ st.panicked THEN st
    ELSE run_lines(after_line(st, process_line(st, Head(lines))), Tail(lines))

\* main.rs:219: the file's StormStats joins the vector.
after_file(acc, st) ==
    [storm_stats |-> Append(acc.storm_stats, st.ss_tmp),
     yearly_ace_map |-> st.yearly_ace_map,
     last_time |-> st.last_time,
     panicked |-> st.panicked]

\* main.rs:145-219: one iteration of the loop over the files.
run_file(acc, f) ==
    after_file(acc,
        run_lines(
            [atcf_basin |-> Slice(f.head, 0, 2),
             last_time |-> initial_last_time(acc.last_time),
             ss_tmp |-> [StormStats_default EXCEPT
                 !.atcf_code = Slice(f.head, 0, 2) \o Slice(f.head, 4, 6)],
             yearly_ace_map |-> acc.yearly_ace_map,
             panicked |-> FALSE],
            FileLines(f)))

RECURSIVE run_files(_, _)
\* main.rs:144-220: the loop over the files.
run_files(acc, file_list) ==
    IF file_list = <<>> \/ acc.panicked THEN acc
    ELSE run_files(run_file(acc, Head(file_list)), Tail(file_list))

\* main.rs:221: the pair returned, unless a panic ended the run.
returned_value(acc) ==
    IF acc.panicked THEN NoResult
    ELSE [returned |-> TRUE, storm_stats |-> acc.storm_stats,
          yearly_ace_map |-> acc.yearly_ace_map]

\* main.rs:141-222
process_bdeck_files(file_list) ==
    returned_value(
        run_files([storm_stats |-> <<>>, yearly_ace_map |-> <<>>,
                   last_time |-> <<>>, panicked |-> FALSE], file_list))

---------------------------------------------------------------------------
(* Specification of get_basin alone: the inputs are drawn from a grid of   *)
(* tenths of a degree that holds every threshold and its two neighbours.   *)

LatGrid == {-900, -450, -1, 0, 1, 150, 399, 400, 401, 650, 900}

LonGrid == {0, 1, 350, 699, 700, 701, 850, 999, 1000, 1001, 1400, 1799,
            1800, 1801, 2100, 2399, 2400, 2401, 2700, 2999, 3000, 3001,
            3300, 3599, 3600}

\* Every latitude of [-90,90] at the longitudes of the grid, and every
\* longitude of [0,360] at the latitudes of the grid.
BasinInputs ==
    ((-900..900) \X LonGrid) \cup (LatGrid \X (0..3600))

Idle ==
    /\ pc = "idle"
    /\ file_head = <<>>
    /\ cur_line = <<>>
    /\ kept = {}
    /\ atcf_basin = <<>>
    /\ last_time = <<>>
    /\ ss_tmp = StormStats_default
    /\ storm_stats = <<>>
    /\ yearly_ace_map = <<>>
    /\ loc = LocDefault
    /\ ret = NoResult
    /\ nlines = 0

InitBasin ==
    /\ Idle
    /\ \E q \in BasinInputs :
         probe = [latitude |-> q[1], longitude |-> q[2], basin |-> "none"]

\* main.rs:211
ClassifyBasin ==
    /\ probe.basin = "none"
    /\ probe' = [probe EXCEPT
                    !.basin = get_basin(probe.latitude, probe.longitude)]
    /\ UNCHANGED <<pc, file_head, cur_line, kept, atcf_basin, last_time,
                   ss_tmp, storm_stats, yearly_ace_map, loc, ret, nlines>>

SpecBasin == InitBasin /\ [][ClassifyBasin]_vars

---------------------------------------------------------------------------
(* Specification of two runs of process_bdeck_files on the same files in   *)
(* two orders.                                                             *)

File(head, fixes) == [head |-> head, fixes |-> fixes]

PermFiles ==
    { File(HeadWP, <<FixA, FixA2, FixE, FixD>>),
      File(HeadWP, <<FixA>>),
      File(HeadSH, <<FixA2, FixF, FixD>>),
      File(HeadSH, <<FixF, FixG, FixI>>) }

Orders(n) ==
    { p \in [1..n -> 1..n] : \A i, j \in 1..n : p[i] = p[j] => i = j }

Permuted(file_list, p) == [i \in 1..Len(file_list) |-> file_list[p[i]]]

FileLists == UNION { [1..n -> PermFiles] : n \in 2..MaxPermFiles }

InitPerm ==
    /\ Idle
    /\ \E fl \in FileLists : \E p \in Orders(Len(fl)) :
         probe = [file_list |-> fl, order |-> p, ran |-> FALSE,
                  first |-> NoResult, second |-> NoResult]

\* main.rs:287, on the list and on the permuted list
RunBoth ==
    /\ ~probe.ran
    /\ probe' = [probe EXCEPT
          !.ran = TRUE,
          !.first = process_bdeck_files(probe.file_list),
          !.second = process_bdeck_files(
                        Permuted(probe.file_list, probe.order))]
    /\ UNCHANGED <<pc, file_head, cur_line, kept, atcf_basin, last_time,
                   ss_tmp, storm_stats, yearly_ace_map, loc, ret, nlines>>

SpecPerm == InitPerm /\ [][RunBoth]_vars

---------------------------------------------------------------------------
(* Properties.                                                             *)

\* The timestamp substring [8,18) of a line.
TsOf(l) == SubSeq(l, 9, 18)

\* A step of ProcessLine, and one whose line ran through the whole body.
LineStep == nlines' = nlines + 1
KeptStep == LineStep /\ loc'.outcome = "kept"

\* The entry of a year before the step, zero if the year has none yet.
OldYear(y) ==
    IF y \in DOMAIN yearly_ace_map THEN yearly_ace_map[y]
    ELSE PerBasinACE_default

ExcludedTypes == {<<"S","D">>, <<"S","S">>, <<"L","O">>, <<"M","D">>,
                  <<"E","X">>, <<"D","B">>, <<"E","T">>}

\* What the line of the step adds to each basin according to C1.
C1_Added ==
    LET w == loc'.wind
        eligible == /\ loc'.storm_type \notin ExcludedTypes
                    /\ loc'.hour % 6 = 0
                    /\ w >= 35
        b == get_basin(loc'.latitude, loc'.longitude)
    IN  [x \in Basins |-> IF eligible /\ x = b THEN w * w ELSE 0]

\* C1: a kept line whose storm type is none of SD, SS, LO, MD, EX, DB, ET,
\* whose hour is a multiple of 6 and whose normalized wind w is at least 35
\* adds exactly w*w to the storm's PerBasinACE and to the PerBasinACE of the
\* line's adjusted year, in the basin get_basin(lat, lon) and in no other;
\* every other kept line adds 0 to every basin of both structures.  Each of
\* the seven codes is non-tropical for is_tropical.
C1_EnergyRule ==
    /\ [][KeptStep =>
            \A x \in Basins :
              /\ ss_tmp'.ace[x] = ss_tmp.ace[x] + C1_Added[x]
              /\ \A y \in DOMAIN yearly_ace_map' :
                   yearly_ace_map'[y][x] =
                     OldYear(y)[x] + (IF y = loc'.year THEN C1_Added[x] ELSE 0)
         ]_vars
    /\ [](\A t \in ExcludedTypes : ~is_tropical(t))

\* C1 witness: the fix of the end-to-end example has added 65*65 to WPAC of
\* the storm and of 2023.
C1_Witness ==
    /\ pc = "lines"
    /\ loc.outcome = "kept"
    /\ loc.wind = 65
    /\ loc.ace = 4225
    /\ ss_tmp.ace["WPAC"] = 4225
    /\ 2023 \in DOMAIN yearly_ace_map
    /\ yearly_ace_map[2023]["WPAC"] = 4225

RECURSIVE SumStorms(_, _)
\* The sum of ace[b] over a sequence of StormStats.
SumStorms(ss, b) ==
    IF ss = <<>> THEN 0 ELSE Head(ss).ace[b] + SumStorms(Tail(ss), b)

RECURSIVE SumYears(_, _, _)
\* The sum of map[y][b] over the years of ys.
SumYears(map, ys, b) ==
    IF ys = {} THEN 0
    ELSE LET y == CHOOSE z \in ys : TRUE
         IN  map[y][b] + SumYears(map, ys \ {y}, b)

\* Every storm of the run: the finished ones and the one in progress.
AllStorms ==
    IF pc \in {"header", "lines"} THEN Append(storm_stats, ss_tmp)
    ELSE storm_stats

RECURSIVE SumTotals(_)
SumTotals(ss) ==
    IF ss = <<>> THEN 0 ELSE PerBasinACE_sum(Head(ss).ace) + SumTotals(Tail(ss))

\* C2: after every processed line, for each basin b the sum over all storms
\* (finished and in progress) of ace[b] equals the sum over all years of
\* YearlyACE[Y][b]; each storm's total is the sum of its five basins, and
\* the storm totals add up to the yearly totals.
C2_StormsMatchYears ==
    /\ \A b \in Basins :
         SumStorms(AllStorms, b)
           = SumYears(yearly_ace_map, DOMAIN yearly_ace_map, b)
    /\ SumTotals(AllStorms)
         = SumYears([y \in DOMAIN yearly_ace_map |->
                       [b \in {"all"} |-> PerBasinACE_sum(yearly_ace_map[y])]],
                    DOMAIN yearly_ace_map, "all")

\* C2 witness: a finished storm and a storm in progress have both earned
\* energy, in two different years.
C2_Witness ==
    /\ pc = "lines"
    /\ Len(storm_stats) = 1
    /\ PerBasinACE_sum(storm_stats[1].ace) > 0
    /\ PerBasinACE_sum(ss_tmp.ace) > 0
    /\ \E y1, y2 \in DOMAIN yearly_ace_map :
         /\ y1 # y2
         /\ PerBasinACE_sum(yearly_ace_map[y1]) > 0
         /\ PerBasinACE_sum(yearly_ace_map[y2]) > 0

\* C3: within one file a line whose timestamp equals that of the line before
\* it (hence of the previous kept line) is skipped: it changes neither the
\* storm's statistics (energy, max_wind) nor the yearly map, so a run of
\* equal timestamps contributes its first line only; any other line is not
\* skipped, and in particular the first line of a file never is, whatever
\* the previous file ended with.
C3_Dedup ==
    [][(LineStep /\ pc' = "lines") =>
          IF pc = "lines" /\ TsOf(cur_line') = TsOf(cur_line)
          THEN /\ loc'.outcome = "skipped"
               /\ ss_tmp' = ss_tmp
               /\ yearly_ace_map' = yearly_ace_map
               /\ kept' = kept
          ELSE /\ loc'.outcome = "kept"
               /\ cur_line' \in kept'
    ]_vars

\* C3 witness: a line with the timestamp of the line before it was skipped
\* although its wind exceeds the storm's max_wind and would have earned
\* energy.
C3_Witness ==
    /\ pc = "lines"
    /\ loc.outcome = "skipped"
    /\ normalize_wind(wind_field(cur_line)) > ss_tmp.max_wind
    /\ ss_tmp.max_wind = 65
    /\ PerBasinACE_sum(ss_tmp.ace) = 4225

\* The four-digit year and the two-digit month of a line's timestamp.
YearOf(l) == DigitsVal(SubSeq(l, 9, 12))
MonthOf(l) == DigitsVal(SubSeq(l, 13, 14))

\* C5: the year under which a fix's energy is accumulated is the year of its
\* timestamp, plus 1 if and only if the file's basin code is SH and the
\* month is in 7..12.
C5_SeasonYear ==
    [][(KeptStep /\ loc'.ace > 0) =>
          LET season == IF SubSeq(file_head, 1, 2) = <<"S", "H">>
                           /\ MonthOf(cur_line') \in 7..12
                        THEN YearOf(cur_line') + 1
                        ELSE YearOf(cur_line')
          IN  /\ season \in DOMAIN yearly_ace_map'
              /\ PerBasinACE_sum(yearly_ace_map'[season])
                   = PerBasinACE_sum(OldYear(season)) + loc'.ace
              /\ \A y \in DOMAIN yearly_ace_map' \ {season} :
                   yearly_ace_map'[y] = OldYear(y)
    ]_vars

\* C5 witness: in an SH file a December 2023 fix has earned energy for 2024
\* and a June 2023 fix for 2023.
C5_Witness ==
    /\ pc = "lines"
    /\ atcf_basin = <<"S", "H">>
    /\ storm_stats = <<>>
    /\ DOMAIN yearly_ace_map = {2023, 2024}
    /\ PerBasinACE_sum(yearly_ace_map[2023]) = 2500
    /\ PerBasinACE_sum(yearly_ace_map[2024]) = 1225

\* The normalized wind of a line: its wind field, less a leading space, as a
\* number; 0 when that is 999 or does not parse.
C6_Wind(l) ==
    LET r == parse_i32(strip_prefix_space(wind_field(l)))
    IN  IF ~r.ok \/ r.val = 999 THEN 0 ELSE r.val

\* The greatest element of a finite set of numbers that holds 0.
MaxOf(S) == CHOOSE m \in S : \A x \in S : x <= m

\* C6: the max_wind of a file's StormStats, while the file is read and once
\* it is finished, is the maximum (0 if none is above 0) of the normalized
\* wind over the file's kept lines, eligible for ACE or not; a kept line
\* whose wind field is 999 has wind 0 and earns nothing.
C6_MaxWind ==
    /\ pc = "lines" =>
         ss_tmp.max_wind = MaxOf({C6_Wind(l) : l \in kept} \cup {0})
    /\ (pc \in {"idle", "done"} /\ storm_stats # <<>>) =>
         storm_stats[Len(storm_stats)].max_wind
           = MaxOf({C6_Wind(l) : l \in kept} \cup {0})
    /\ (pc = "lines" /\ loc.outcome = "kept"
          /\ strip_prefix_space(wind_field(cur_line)) = <<"9", "9", "9">>) =>
         (loc.wind = 0 /\ loc.ace = 0)

\* C6 witness: a finished storm whose max_wind, 80 kt, comes from a fix of an
\* excluded storm type, while its energy comes from a 65 kt fix.
C6_Witness ==
    /\ pc = "idle"
    /\ storm_stats # <<>>
    /\ storm_stats[Len(storm_stats)].max_wind = 80
    /\ PerBasinACE_sum(storm_stats[Len(storm_stats)].ace) = 4225
    /\ Cardinality(kept) >= 2

\* C7 as stated: the wind field of a kept line is its columns [48,51) when
\* the line has 52 characters or more and its last 3 characters when it has
\* fewer; the wind is that field, less a leading space, as a number.
C7_WindField ==
    (pc = "lines" /\ loc.outcome = "kept") =>
        LET n == Len(cur_line)
            field == IF n >= 52 THEN SubSeq(cur_line, 49, 51)
                     ELSE SubSeq(cur_line, n - 2, n)
            r == parse_i32(strip_prefix_space(field))
        IN  /\ loc.temp_wind = field
            /\ loc.wind = IF ~r.ok \/ r.val = 999 THEN 0 ELSE r.val

\* The decision table of C4, one row per basin.
C4_Table(lat, lon) ==
    [b \in Basins |->
       CASE b = "SHEM" -> lat < 0
         [] b = "NIO"  -> lat >= 0 /\ lon < 1000 /\ lat < 400
         [] b = "ATL"  -> lat >= 0 /\ (\/ (lon < 700 /\ lat >= 400)
                                       \/ lon > 3000)
         [] b = "WPAC" -> lat >= 0 /\ (\/ (700 <= lon /\ lon < 1000 /\ lat >= 400)
                                       \/ (1000 <= lon /\ lon <= 1800))
         [] b = "EPAC" -> lat >= 0 /\ 1800 < lon /\ lon <= 3000]

\* C4: for every latitude in [-90,90] and longitude in [0,360] get_basin
\* returns exactly one basin: SHEM if lat < 0; else, for lon < 100, NIO when
\* lat < 40, ATL when lat >= 40 and lon < 70, WPAC when lat >= 40 and
\* lon >= 70; else WPAC for 100 <= lon <= 180, EPAC for 180 < lon <= 300,
\* ATL for lon > 300.
C4_BasinTable ==
    probe.basin # "none" =>
        /\ probe.basin \in Basins
        /\ \A b \in Basins :
             C4_Table(probe.latitude, probe.longitude)[b] <=> (probe.basin = b)

\* C4 witness: longitude 180.0 at latitude 0.0 has been classified WPAC.
C4_Witness ==
    /\ probe.basin = "WPAC"
    /\ probe.longitude = 1800
    /\ probe.latitude = 0

\* A field that parses as a number: one or more digits.
IsNumber(s) == s # <<>> /\ \A i \in 1..Len(s) : IsDigit(s[i])

NoSpaces(s) == SelectSeq(s, LAMBDA c : c # " ")

\* A line with a year, month, hour, latitude or longitude that is no number,
\* or too short for the reads at [8,18), [35,39), [41,46).
C8_Malformed(l) ==
    IF Len(l) < 46 THEN TRUE
    ELSE \/ ~IsNumber(SubSeq(l, 9, 12))
         \/ ~IsNumber(SubSeq(l, 13, 14))
         \/ ~IsNumber(SubSeq(l, 17, 18))
         \/ ~IsNumber(NoSpaces(SubSeq(l, 36, 38)))
         \/ ~IsNumber(NoSpaces(SubSeq(l, 42, 45)))

\* C8: the run aborts at a line exactly when the line is too short for its
\* timestamp, or is kept (its timestamp differs from that of the line before
\* it in the file) and malformed; the wind field plays no part.  An aborted
\* run is over and has returned nothing, neither StormStats nor YearlyACE,
\* whatever was processed before; only a run that reached the end returns.
C8_FailFast ==
    /\ [][LineStep =>
            (pc' = "aborted" <=>
               \/ Len(cur_line') < 18
               \/ /\ ~(pc = "lines" /\ TsOf(cur_line') = TsOf(cur_line))
                  /\ C8_Malformed(cur_line'))
         ]_vars
    /\ [][pc # "aborted"]_vars
    /\ [](pc = "aborted" =>
            (ret = NoResult /\ storm_stats = <<>> /\ yearly_ace_map = <<>>))
    /\ [](ret # NoResult => pc = "done")

\* C8 witness: the run has aborted at an unparsable latitude after another
\* line had been processed.
C8_Witness ==
    /\ pc = "aborted"
    /\ nlines >= 2
    /\ Len(cur_line) >= 46
    /\ ~IsNumber(NoSpaces(SubSeq(cur_line, 36, 38)))
    /\ ret = NoResult

\* A field that is left alone or grows by the square of a wind of 35 or more.
C9_Grows(old, new) == new = old \/ new - old >= 35 * 35

\* C9: every basin field of every PerBasinACE, of each storm and of each
\* year, is >= 0 in every state, and no step of a run that goes on decreases
\* one: a step leaves a field alone or adds w*w with w >= 35 to it.
C9_Monotone ==
    /\ [](\A b \in Basins :
            /\ ss_tmp.ace[b] >= 0
            /\ \A i \in 1..Len(storm_stats) : storm_stats[i].ace[b] >= 0
            /\ \A y \in DOMAIN yearly_ace_map : yearly_ace_map[y][b] >= 0)
    /\ [][pc' # "aborted" =>
            \A b \in Basins :
              /\ \A y \in DOMAIN yearly_ace_map :
                   /\ y \in DOMAIN yearly_ace_map'
                   /\ C9_Grows(yearly_ace_map[y][b], yearly_ace_map'[y][b])
              /\ \A i \in 1..Len(storm_stats) :
                   /\ i <= Len(storm_stats')
                   /\ storm_stats'[i].ace[b] = storm_stats[i].ace[b]
              /\ (LineStep => C9_Grows(ss_tmp.ace[b], ss_tmp'.ace[b]))
              /\ (pc = "lines" /\ pc' = "idle") =>
                   storm_stats'[Len(storm_stats')].ace[b] = ss_tmp.ace[b]
         ]_vars

\* C9 witness: a basin field of a year has grown twice, the second time on
\* top of an earlier storm's energy.
C9_Witness ==
    /\ pc = "lines"
    /\ Len(storm_stats) = 1
    /\ \E y \in DOMAIN yearly_ace_map : \E b \in Basins :
         /\ storm_stats[1].ace[b] > 0
         /\ ss_tmp.ace[b] > 0
         /\ yearly_ace_map[y][b] = storm_stats[1].ace[b] + ss_tmp.ace[b]

\* C10: the YearlyACE returned for a list of well-formed files is that
\* returned for any permutation of it (same year keys, same per-basin
\* values); the returned StormStats list has one entry per file, in the
\* order of the list, each equal to what the file yields when run alone.
C10_OrderIndependent ==
    probe.ran =>
        LET listed == probe.file_list
            permuted == Permuted(probe.file_list, probe.order)
            Alone(f) == process_bdeck_files(<<f>>).storm_stats[1]
        IN  /\ probe.first.returned /\ probe.second.returned
            /\ probe.first.yearly_ace_map = probe.second.yearly_ace_map
            /\ Len(probe.first.storm_stats) = Len(listed)
            /\ Len(probe.second.storm_stats) = Len(listed)
            /\ \A i \in 1..Len(listed) :
                 /\ probe.first.storm_stats[i] = Alone(listed[i])
                 /\ probe.second.storm_stats[i] = Alone(permuted[i])

\* C10 witness: two runs on three files in different orders, the returned
\* StormStats lists differing, energy in two years.
C10_Witness ==
    /\ probe.ran
    /\ Len(probe.file_list) = 3
    /\ probe.first.storm_stats # probe.second.storm_stats
    /\ \E y1, y2 \in DOMAIN probe.first.yearly_ace_map :
         /\ y1 # y2
         /\ PerBasinACE_sum(probe.first.yearly_ace_map[y1]) > 0
         /\ PerBasinACE_sum(probe.first.yearly_ace_map[y2]) > 0

=============================================================================
